---- MODULE Spec2Model ----
(***************************************************************************)
(* Model of asdf/_serialization_context.py: the SerializationContext and   *)
(* the scoped operations _Deserialization, _Serialization, _IgnoreBlocks   *)
(* opened on it, together with the block manager's object stores, the      *)
(* write-block allocator, the BlockKey bindings and the set of extensions  *)
(* used.                                                                   *)
(***************************************************************************)
EXTENDS Integers, Sequences, FiniteSets, TLC

\* ------------------------------------------------------------------ bounds
NumObjects == 2
NumBlocks == 2
MaxKeys == 2
NumExtensions == 1
NumDataCallbacks == 1
MaxScopes == 2

\* ------------------------------------------------------------------ values
\* Every value is a pair <<tag, n>>, so that any two values can be compared.
None == <<"None", 0>>
NotImplementedError == <<"NotImplementedError", 0>>
MultipleUnkeyedError == <<"OSError", 0>>
IndexError == <<"IndexError", 0>>
ConverterError == <<"Exception", 0>>
InvalidVersion == <<"ValueError", 0>>
Errors == {NotImplementedError, MultipleUnkeyedError, IndexError, InvalidVersion}

Objects == {<<"obj", i>> : i \in 1..NumObjects}
Keys == {<<"key", i>> : i \in 1..MaxKeys}
Owners == Objects \cup Keys \cup {None}
\* Block indices a caller may pass; NumBlocks itself is out of range.
Indices == 0..NumBlocks
Block(i) == <<"blk", i>>
Callback(i) == <<"cb", i>>
IntVal(n) == <<"int", n>>
DataCallbacks == {<<"data", i>> : i \in 1..NumDataCallbacks}
\* An extension is handed over either bare or already wrapped in a proxy.
Extension(e) == <<"ext", e>>
Proxy(e) == <<"proxy", e>>
ExtensionArgs == {Extension(e) : e \in 1..NumExtensions} \cup {Proxy(e) : e \in 1..NumExtensions}
Delegate(x) == x[2]
\* Version strings: one the standard supports and one it does not.
SupportedVersions == {<<"version", 1>>}
Versions == SupportedVersions \cup {<<"version", 0>>}

VARIABLES
    version,           \* SerializationContext._version (None: no Context exists)
    extensions_used,   \* SerializationContext.__extensions_used of the Context
    blocks,            \* _blocks.blocks: owner -> block assigned to it (None: none)
    data_callbacks,    \* _blocks._data_callbacks: owner -> callback assigned to it
    write_blocks,      \* the allocator: sequence of [key, data] write blocks
    key_obj,           \* BlockKey -> the object it is bound to (None: unbound)
    n_keys,            \* number of BlockKeys created so far
    op,                \* the open Operation (phase "none": no scope is open)
    n_scopes,          \* number of scopes opened so far
    call,              \* the last call: receiver, method, arguments
    ret,               \* what the last call returned or raised
    opened,            \* the shared state as it was when the current scope was
                       \* opened, or before the last call on the Context
    hist,              \* what the callers did in the current scope
    closed             \* the Operation as it was when the last scope was left

vars == <<version, extensions_used, blocks, data_callbacks, write_blocks, key_obj, n_keys,
          op, n_scopes, call, ret, opened, hist, closed>>

\* ------------------------------------------------------ external collaborators
\* validate_version: the version if the standard supports it, or the error.
validate_version(v) == IF v \in SupportedVersions THEN v ELSE InvalidVersion

\* ExtensionProxy.maybe_wrap: wraps a bare extension, leaves a proxy as it is.
maybe_wrap(x) == IF x[1] = "proxy" THEN x ELSE Proxy(x[2])

\* _blocks.blocks[index]
blocks_getitem(index) == IF index \in 0..(NumBlocks - 1) THEN Block(index) ELSE IndexError

\* _blocks._get_data_callback(index)
get_data_callback(index) == Callback(index)

\* Store.assign_object: insert or overwrite
assign_object(store, owner, value) == [store EXCEPT ![owner] = value]

\* Key.assign_object applied to each key of a set
keys_assign_object(refs, ks, obj) == [k \in Keys |-> IF k \in ks THEN obj ELSE refs[k]]

\* BlockKey(): the next key not yet created
BlockKey(n) == <<"key", n + 1>>

\* make_write_block: the index of the write block of lookup_key, or a new one
WriteIndex(wb, lookup_key) ==
    IF \E i \in 1..Len(wb) : wb[i].key = lookup_key
    THEN (CHOOSE i \in 1..Len(wb) : wb[i].key = lookup_key) - 1
    ELSE Len(wb)
make_write_block(wb, data, lookup_key) ==
    IF \E i \in 1..Len(wb) : wb[i].key = lookup_key
    THEN wb
    ELSE Append(wb, [key |-> lookup_key, data |-> data])

\* ------------------------------------------------------------------ state
NoOp == [phase |-> "none", obj |-> None, blk |-> None, cb |-> None, keys |-> {},
         own_extensions_used |-> {}]
\* A variant of _Deserialization.__init__: the pair and the keys are attributes
\* of the class, so a new scope finds what the last one left.
NewDeserialization_shared == [phase |-> "deser", obj |-> None, blk |-> closed.blk,
                              cb |-> closed.cb, keys |-> closed.keys,
                              own_extensions_used |-> {}]
\* _Operation.__init__, _Deserialization.__init__
NewDeserialization == [phase |-> "deser", obj |-> None, blk |-> None, cb |-> None,
                       keys |-> {}, own_extensions_used |-> {}]
\* _Serialization.__init__
NewSerialization(obj) == [phase |-> "ser", obj |-> obj, blk |-> None, cb |-> None,
                          keys |-> {}, own_extensions_used |-> {}]
\* _IgnoreBlocks: _Operation.__init__ alone
NewIgnoreBlocks == [phase |-> "ignore", obj |-> None, blk |-> None, cb |-> None,
                    keys |-> {}, own_extensions_used |-> {}]

\* What the callers have seen: first, the index of the scope's successful unkeyed
\* access; multi, whether an unkeyed access was refused; keyed, the keys of the
\* scope's keyed accesses; gen, the keys generate_block_key returned in the scope;
\* finds and default_index, the number of find_available_block_index calls without
\* a lookup key (2: two or more) and what the first returned; marked, the
\* extensions marked on this Context so far; failed, whether an access of the
\* scope failed in the block collection; dropped, the keys generated in the
\* deserialization scopes of this Context that were left with an exception.
NoHist == [first |-> -1, multi |-> FALSE, keyed |-> {}, gen |-> {},
           finds |-> 0, default_index |-> -1,
           marked |-> {}, failed |-> FALSE, dropped |-> {}]
NewHist(h) == [NoHist EXCEPT !.marked = h.marked, !.dropped = h.dropped]
\* Whether the caller marks an extension it has marked before.
Again(extension) == IntVal(IF Delegate(extension) \in hist.marked THEN 1 ELSE 0)
Marked(h, extension) == [h EXCEPT !.marked = @ \cup {Delegate(extension)}]
Snapshot == [blocks |-> blocks, data_callbacks |-> data_callbacks, key_obj |-> key_obj,
             write_blocks |-> write_blocks]
Call(on, name, a, b) == [on |-> on, name |-> name, a |-> a, b |-> b]
\* The objects a method reads and writes: the receiver and what it refers to.
Self == [op |-> op, blocks |-> blocks, data_callbacks |-> data_callbacks,
         key_obj |-> key_obj, n_keys |-> n_keys, write_blocks |-> write_blocks,
         extensions_used |-> extensions_used]
Return(s, value) == [s |-> s, ret |-> value]
Raise(s, error) == [s |-> s, ret |-> error]

\* No Context has been constructed; the block manager it will be given is empty.
Init ==
    /\ version = None
    /\ extensions_used = {}
    /\ blocks = [o \in Owners |-> None]
    /\ data_callbacks = [o \in Owners |-> None]
    /\ write_blocks = <<>>
    /\ key_obj = [k \in Keys |-> None]
    /\ n_keys = 0
    /\ op = NoOp
    /\ n_scopes = 0
    /\ call = Call("none", "init", None, None)
    /\ ret = None
    /\ opened = [blocks |-> [o \in Owners |-> None],
                 data_callbacks |-> [o \in Owners |-> None],
                 key_obj |-> [k \in Keys |-> None],
                 write_blocks |-> <<>>]
    /\ hist = NoHist
    /\ closed = NoOp

\* ------------------------------------------------------------------ methods
\* op._obj = obj, by the pipeline that opened the scope
set_obj(s, obj) == [s EXCEPT !.op.obj = obj]

\* A variant of SerializationContext.__init__: the version is stored as given.
SerializationContext_init_unvalidated(v) ==
    [version |-> v, extensions_used |-> {}, ret |-> None]

\* SerializationContext.__init__: nothing is assigned when validate_version raises
SerializationContext_init(v) ==
    LET validated == validate_version(v)
    IN IF validated \in Errors
       THEN [version |-> None, extensions_used |-> {}, ret |-> validated]
       ELSE [version |-> validated, extensions_used |-> {}, ret |-> None]

\* A variant of SerializationContext._mark_extension_used: maybe_wrap left out.
SerializationContext_mark_extension_used_unwrapped(s, extension) ==
    Return([s EXCEPT !.extensions_used = @ \cup {extension}], None)

\* SerializationContext._mark_extension_used
SerializationContext_mark_extension_used(s, extension) ==
    Return([s EXCEPT !.extensions_used = @ \cup {maybe_wrap(extension)}], None)

\* _Operation._mark_extension_used: ctx = self._ctx(); ctx._mark_extension_used(..)
Operation_mark_extension_used(s, extension) ==
    SerializationContext_mark_extension_used(s, extension)

\* SerializationContext._extensions_used
SerializationContext_extensions_used(s) == s.extensions_used

\* _Operation._extensions_used: ctx = self._ctx(); return ctx._extensions_used
Operation_extensions_used(s) == SerializationContext_extensions_used(s)

\* SerializationContext.get_block_data_callback: raise NotImplementedError
SerializationContext_get_block_data_callback(s, index, key) ==
    Raise(s, NotImplementedError)

\* A variant of SerializationContext.find_available_block_index: a write block
\* instead of the error.
SerializationContext_find_available_block_index_allocating(s, data_callback, lookup_key) ==
    Return([s EXCEPT !.write_blocks = make_write_block(@, data_callback, lookup_key)],
           IntVal(WriteIndex(s.write_blocks, lookup_key)))

\* SerializationContext.find_available_block_index: raise NotImplementedError
SerializationContext_find_available_block_index(s, data_callback, lookup_key) ==
    Raise(s, NotImplementedError)

\* A variant of SerializationContext.generate_block_key: a key instead of the error.
SerializationContext_generate_block_key_implemented(s) ==
    IF s.n_keys < MaxKeys
    THEN Return([s EXCEPT !.n_keys = @ + 1], BlockKey(s.n_keys))
    ELSE Raise(s, NotImplementedError)

\* SerializationContext.generate_block_key: raise NotImplementedError
SerializationContext_generate_block_key(s) ==
    Raise(s, NotImplementedError)

\* A variant of _Operation.__exit__: a failing exit takes back the write blocks
\* allocated under the scope's object.
Operation_exit_release(s, exc_type) ==
    IF exc_type # None
    THEN Return([s EXCEPT !.write_blocks = SelectSeq(@, LAMBDA b : b.key # s.op.obj)],
                None)
    ELSE Return(s, None)

\* _Operation.__exit__: pass
Operation_exit(s, exc_type) == Return(s, None)

\* Variants of _Deserialization.__exit__ with a slip in it.
\* The callback store is not written.
Deserialization_exit_no_callback(s, exc_type) ==
    IF exc_type # None
    THEN Return(s, None)
    ELSE LET s1 == IF s.op.blk # None
                   THEN [s EXCEPT !.blocks = assign_object(@, s.op.obj, s.op.blk)]
                   ELSE s
         IN Return([s1 EXCEPT !.key_obj = keys_assign_object(@, s.op.keys, s.op.obj)],
                   None)
\* exc_type is not looked at.
Deserialization_exit_always(s, exc_type) ==
    LET s1 == IF s.op.blk # None
              THEN [s EXCEPT !.blocks = assign_object(@, s.op.obj, s.op.blk),
                             !.data_callbacks = assign_object(@, s.op.obj, s.op.cb)]
              ELSE s
    IN Return([s1 EXCEPT !.key_obj = keys_assign_object(@, s.op.keys, s.op.obj)], None)
\* The loop over the keys is inside the if.
Deserialization_exit_keys_in_if(s, exc_type) ==
    IF exc_type # None
    THEN Return(s, None)
    ELSE IF s.op.blk # None
         THEN Return([s EXCEPT !.blocks = assign_object(@, s.op.obj, s.op.blk),
                               !.data_callbacks = assign_object(@, s.op.obj, s.op.cb),
                               !.key_obj = keys_assign_object(@, s.op.keys, s.op.obj)],
                     None)
         ELSE Return(s, None)
\* A failing exit forgets the extensions.
Deserialization_exit_rollback(s, exc_type) ==
    IF exc_type # None
    THEN Return([s EXCEPT !.extensions_used = {}], None)
    ELSE LET s1 == IF s.op.blk # None
                   THEN [s EXCEPT !.blocks = assign_object(@, s.op.obj, s.op.blk),
                                  !.data_callbacks = assign_object(@, s.op.obj, s.op.cb)]
                   ELSE s
         IN Return([s1 EXCEPT !.key_obj = keys_assign_object(@, s.op.keys, s.op.obj)],
                   None)

\* A failing exit clears the mappings of all objects, not its own alone.
Deserialization_exit_clear(s, exc_type) ==
    IF exc_type # None
    THEN Return([s EXCEPT !.blocks = [w \in Owners |-> IF w \in Objects THEN None ELSE @[w]],
                          !.data_callbacks = [w \in Owners |->
                                                 IF w \in Objects THEN None ELSE @[w]]],
                None)
    ELSE LET s1 == IF s.op.blk # None
                   THEN [s EXCEPT !.blocks = assign_object(@, s.op.obj, s.op.blk),
                                  !.data_callbacks = assign_object(@, s.op.obj, s.op.cb)]
                   ELSE s
         IN Return([s1 EXCEPT !.key_obj = keys_assign_object(@, s.op.keys, s.op.obj)],
                   None)

\* A clean exit binds every key that has no object yet, not the scope's alone.
Deserialization_exit_all_unbound(s, exc_type) ==
    IF exc_type # None
    THEN Return(s, None)
    ELSE LET s1 == IF s.op.blk # None
                   THEN [s EXCEPT !.blocks = assign_object(@, s.op.obj, s.op.blk),
                                  !.data_callbacks = assign_object(@, s.op.obj, s.op.cb)]
                   ELSE s
             unbound == {k \in Keys : k[2] <= s.n_keys /\ s.key_obj[k] = None}
         IN Return([s1 EXCEPT !.key_obj = keys_assign_object(@, unbound, s.op.obj)],
                   None)

\* _Deserialization.__exit__
Deserialization_exit(s, exc_type) ==
    IF exc_type # None
    THEN Return(s, None)
    ELSE LET s1 == IF s.op.blk # None
                   THEN [s EXCEPT !.blocks = assign_object(@, s.op.obj, s.op.blk),
                                  !.data_callbacks = assign_object(@, s.op.obj, s.op.cb)]
                   ELSE s
         IN Return([s1 EXCEPT !.key_obj = keys_assign_object(@, s.op.keys, s.op.obj)],
                   None)

\* A variant of _Deserialization.get_block_data_callback: a second unkeyed access
\* is not refused and replaces the first.
Deserialization_get_block_data_callback_unchecked(s, index, key) ==
    LET blk == blocks_getitem(index)
        cb == get_data_callback(index)
    IN IF blk \in Errors
       THEN Raise(s, blk)
       ELSE IF key = None
            THEN Return([s EXCEPT !.op.blk = blk, !.op.cb = cb], cb)
            ELSE Return([s EXCEPT !.blocks = assign_object(@, key, blk),
                                  !.data_callbacks = assign_object(@, key, cb)], cb)

\* A variant of _Deserialization.get_block_data_callback: the unkeyed access is
\* assigned to the scope's object at the call as well.
Deserialization_get_block_data_callback_eager(s, index, key) ==
    LET blk == blocks_getitem(index)
        cb == get_data_callback(index)
    IN IF blk \in Errors
       THEN Raise(s, blk)
       ELSE IF key = None
            THEN IF s.op.blk # None
                 THEN Raise(s, MultipleUnkeyedError)
                 ELSE Return([s EXCEPT !.op.blk = blk, !.op.cb = cb,
                                       !.blocks = assign_object(@, s.op.obj, blk),
                                       !.data_callbacks = assign_object(@, s.op.obj, cb)],
                             cb)
            ELSE Return([s EXCEPT !.blocks = assign_object(@, key, blk),
                                  !.data_callbacks = assign_object(@, key, cb)], cb)

\* A variant of _Deserialization.get_block_data_callback: the block is looked up
\* where it is used, after the callback of an unkeyed access has been recorded.
Deserialization_get_block_data_callback_late_lookup(s, index, key) ==
    LET blk == blocks_getitem(index)
        cb == get_data_callback(index)
    IN IF key = None
       THEN IF s.op.blk # None
            THEN Raise(s, MultipleUnkeyedError)
            ELSE IF blk \in Errors
                 THEN Raise([s EXCEPT !.op.cb = cb], blk)
                 ELSE Return([s EXCEPT !.op.blk = blk, !.op.cb = cb], cb)
       ELSE IF blk \in Errors
            THEN Raise(s, blk)
            ELSE Return([s EXCEPT !.blocks = assign_object(@, key, blk),
                                  !.data_callbacks = assign_object(@, key, cb)], cb)

\* A variant of _Deserialization.get_block_data_callback: the test for a recorded
\* pair comes before the test for the key, so it refuses keyed accesses too.
Deserialization_get_block_data_callback_key_late(s, index, key) ==
    LET blk == blocks_getitem(index)
        cb == get_data_callback(index)
    IN IF blk \in Errors
       THEN Raise(s, blk)
       ELSE IF s.op.blk # None
            THEN Raise(s, MultipleUnkeyedError)
            ELSE IF key = None
                 THEN Return([s EXCEPT !.op.blk = blk, !.op.cb = cb], cb)
                 ELSE Return([s EXCEPT !.blocks = assign_object(@, key, blk),
                                       !.data_callbacks = assign_object(@, key, cb)], cb)

\* _Deserialization.get_block_data_callback
Deserialization_get_block_data_callback(s, index, key) ==
    LET blk == blocks_getitem(index)
        cb == get_data_callback(index)
    IN IF blk \in Errors
       THEN Raise(s, blk)
       ELSE IF key = None
            THEN IF s.op.blk # None
                 THEN Raise(s, MultipleUnkeyedError)
                 ELSE Return([s EXCEPT !.op.blk = blk, !.op.cb = cb], cb)
            ELSE Return([s EXCEPT !.blocks = assign_object(@, key, blk),
                                  !.data_callbacks = assign_object(@, key, cb)], cb)

\* _Deserialization.generate_block_key
Deserialization_generate_block_key(s) ==
    LET key == BlockKey(s.n_keys)
    IN Return([s EXCEPT !.n_keys = @ + 1, !.op.keys = @ \cup {key}], key)

\* A variant of _Serialization.find_available_block_index: lookup_key is handed on
\* as it came.
Serialization_find_available_block_index_as_given(s, data_callback, lookup_key) ==
    Return([s EXCEPT !.write_blocks = make_write_block(@, data_callback, lookup_key)],
           IntVal(WriteIndex(s.write_blocks, lookup_key)))

\* _Serialization.find_available_block_index
Serialization_find_available_block_index(s, data_callback, lookup_key) ==
    LET lk == IF lookup_key = None THEN s.op.obj ELSE lookup_key
    IN Return([s EXCEPT !.write_blocks = make_write_block(@, data_callback, lk)],
              IntVal(WriteIndex(s.write_blocks, lk)))

\* A variant of _Serialization.generate_block_key: BlockKey(), the object left out.
Serialization_generate_block_key_unbound(s) ==
    LET key == BlockKey(s.n_keys)
    IN Return([s EXCEPT !.n_keys = @ + 1], key)

\* _Serialization.generate_block_key: BlockKey(self._obj)
Serialization_generate_block_key(s) ==
    LET key == BlockKey(s.n_keys)
    IN Return([s EXCEPT !.n_keys = @ + 1, !.key_obj[key] = s.op.obj], key)

\* ------------------------------------------------------------------ actions
Apply(r) ==
    /\ op' = r.s.op
    /\ blocks' = r.s.blocks
    /\ data_callbacks' = r.s.data_callbacks
    /\ key_obj' = r.s.key_obj
    /\ n_keys' = r.s.n_keys
    /\ write_blocks' = r.s.write_blocks
    /\ extensions_used' = r.s.extensions_used
    /\ ret' = r.ret

\* A call inside the open scope.
Step(c, r, h) ==
    /\ call' = c
    /\ Apply(r)
    /\ hist' = h
    /\ UNCHANGED <<version, n_scopes, opened, closed>>

\* A call on the Context between two scopes: the last scope is history.
CtxStep(c, r, h) ==
    /\ call' = c
    /\ Apply(r)
    /\ hist' = NewHist(h)
    /\ opened' = Snapshot
    /\ closed' = NoOp
    /\ UNCHANGED <<version, n_scopes>>

CreatedKeys == {<<"key", i>> : i \in 1..n_keys}

\* ctx = SerializationContext(v, extension_manager, url, blocks); when it raises
\* there is no Context, and the pipeline may construct one again.
Construct(v) ==
    /\ version = None
    /\ LET r == SerializationContext_init(v)
       IN /\ version' = r.version
          /\ extensions_used' = r.extensions_used
          /\ ret' = r.ret
    /\ call' = Call("ctx", "__init__", v, None)
    /\ UNCHANGED <<blocks, data_callbacks, write_blocks, key_obj, n_keys, op, n_scopes,
                   opened, hist, closed>>

\* The pipeline owns the Context and calls it between the scopes; inside a scope
\* the converter holds the Operation alone.
\* ctx._mark_extension_used(extension)
CtxMarkExtensionUsed(extension) ==
    /\ version # None
    /\ op.phase = "none"
    /\ CtxStep(Call("ctx", "_mark_extension_used", extension, Again(extension)),
            SerializationContext_mark_extension_used(Self, extension),
            Marked(hist, extension))

\* op._mark_extension_used(extension), op any open Operation
OpMarkExtensionUsed(extension) ==
    /\ op.phase # "none"
    /\ Step(Call("op", "_mark_extension_used", extension, Again(extension)),
            Operation_mark_extension_used(Self, extension),
            Marked(hist, extension))

\* ctx.get_block_data_callback(index, key) on the bare Context
CtxGetBlockDataCallback(index, key) ==
    /\ version # None
    /\ op.phase = "none"
    /\ CtxStep(Call("ctx", "get_block_data_callback", None, None),
            SerializationContext_get_block_data_callback(Self, index, key), hist)

\* ctx.find_available_block_index(data_callback, lookup_key) on the bare Context
CtxFindAvailableBlockIndex(data_callback, lookup_key) ==
    /\ version # None
    /\ op.phase = "none"
    /\ CtxStep(Call("ctx", "find_available_block_index", None, None),
            SerializationContext_find_available_block_index(Self, data_callback,
                                                            lookup_key),
            hist)

\* ctx.generate_block_key() on the bare Context
CtxGenerateBlockKey ==
    /\ version # None
    /\ op.phase = "none"
    /\ CtxStep(Call("ctx", "generate_block_key", None, None),
            SerializationContext_generate_block_key(Self), hist)

\* with ctx._deserialization() as op
OpenDeserialization ==
    /\ version # None
    /\ op.phase = "none"
    /\ n_scopes < MaxScopes
    /\ op' = NewDeserialization
    /\ n_scopes' = n_scopes + 1
    /\ call' = Call("ctx", "_deserialization", None, None)
    /\ ret' = None
    /\ opened' = Snapshot
    /\ hist' = NewHist(hist)
    /\ closed' = NoOp
    /\ UNCHANGED <<version, extensions_used, blocks, data_callbacks, write_blocks, key_obj,
                   n_keys>>

\* with ctx._serialization(obj) as op
OpenSerialization(obj) ==
    /\ version # None
    /\ op.phase = "none"
    /\ n_scopes < MaxScopes
    /\ op' = NewSerialization(obj)
    /\ n_scopes' = n_scopes + 1
    /\ call' = Call("ctx", "_serialization", None, None)
    /\ ret' = None
    /\ opened' = Snapshot
    /\ hist' = NewHist(hist)
    /\ closed' = NoOp
    /\ UNCHANGED <<version, extensions_used, blocks, data_callbacks, write_blocks, key_obj,
                   n_keys>>

\* with _IgnoreBlocks(ctx) as op
OpenIgnoreBlocks ==
    /\ version # None
    /\ op.phase = "none"
    /\ n_scopes < MaxScopes
    /\ op' = NewIgnoreBlocks
    /\ n_scopes' = n_scopes + 1
    /\ call' = Call("ctx", "_IgnoreBlocks", None, None)
    /\ ret' = None
    /\ opened' = Snapshot
    /\ hist' = NewHist(hist)
    /\ closed' = NoOp
    /\ UNCHANGED <<version, extensions_used, blocks, data_callbacks, write_blocks, key_obj,
                   n_keys>>

\* op.get_block_data_callback(index, key)
OpGetBlockDataCallback(index, key) ==
    /\ op.phase # "none"
    /\ LET r == IF op.phase = "deser"
                THEN Deserialization_get_block_data_callback(Self, index, key)
                ELSE SerializationContext_get_block_data_callback(Self, index, key)
           ok == op.phase = "deser" /\ r.ret \notin Errors
       IN Step(Call("op", "get_block_data_callback",
                    IF op.phase = "deser" /\ r.ret \in Errors THEN IntVal(index) ELSE None,
                    IF op.phase = "deser" THEN key ELSE None), r,
               [hist EXCEPT !.first = IF ok /\ key = None /\ @ = -1 THEN index ELSE @,
                            !.multi = @ \/ (r.ret = MultipleUnkeyedError),
                            !.failed = @ \/ (r.ret = IndexError),
                            !.keyed = IF ok /\ key # None THEN @ \cup {key} ELSE @])

\* op.generate_block_key()
OpGenerateBlockKey ==
    /\ op.phase # "none"
    /\ op.phase \in {"deser", "ser"} => n_keys < MaxKeys
    /\ LET r == CASE op.phase = "deser" -> Deserialization_generate_block_key(Self)
                  [] op.phase = "ser" -> Serialization_generate_block_key(Self)
                  [] OTHER -> SerializationContext_generate_block_key(Self)
       IN Step(Call("op", "generate_block_key", None, None), r,
               [hist EXCEPT !.gen = IF r.ret \in Errors THEN @ ELSE @ \cup {r.ret}])

\* op.find_available_block_index(data_callback, lookup_key)
OpFindAvailableBlockIndex(data_callback, lookup_key) ==
    /\ op.phase # "none"
    /\ LET r == IF op.phase = "ser"
                THEN Serialization_find_available_block_index(Self, data_callback, lookup_key)
                ELSE SerializationContext_find_available_block_index(Self, data_callback,
                                                                    lookup_key)
           default == op.phase = "ser" /\ lookup_key = None
       IN Step(Call("op", "find_available_block_index",
                    IF op.phase = "ser" THEN lookup_key ELSE None, None), r,
               [hist EXCEPT !.finds = IF default /\ @ < 2 THEN @ + 1 ELSE @,
                            !.default_index = IF default /\ @ = -1 THEN r.ret[2] ELSE @])

\* The end of the with block: the pipeline stores the object the converter has
\* returned (op._obj = obj; None: nothing was stored) and op.__exit__(exc_type, ..)
\* runs, after which op is gone.
Exit(exc_type, obj) ==
    /\ op.phase # "none"
    /\ op.phase = "deser" \/ obj = None
    /\ LET s0 == IF obj = None THEN Self ELSE set_obj(Self, obj)
           r == IF op.phase = "deser"
                THEN Deserialization_exit(s0, exc_type)
                ELSE Operation_exit(s0, exc_type)
       IN /\ call' = Call("op", "__exit__", exc_type, None)
          /\ Apply([r EXCEPT !.s.op = NoOp])
          /\ closed' = s0.op
          /\ hist' = [hist EXCEPT !.dropped = IF op.phase = "deser" /\ exc_type # None
                                               THEN @ \cup hist.gen ELSE @]
          /\ UNCHANGED <<version, n_scopes, opened>>

Next ==
    \/ \E v \in Versions : Construct(v)
    \/ \E x \in ExtensionArgs : CtxMarkExtensionUsed(x)
    \/ \E x \in ExtensionArgs : OpMarkExtensionUsed(x)
    \/ \E i \in Indices, k \in CreatedKeys \cup {None} : CtxGetBlockDataCallback(i, k)
    \/ \E d \in DataCallbacks, k \in Objects \cup {None} : CtxFindAvailableBlockIndex(d, k)
    \/ CtxGenerateBlockKey
    \/ OpenDeserialization
    \/ \E o \in Objects : OpenSerialization(o)
    \/ OpenIgnoreBlocks
    \/ \E i \in Indices, k \in CreatedKeys \cup {None} : OpGetBlockDataCallback(i, k)
    \/ OpGenerateBlockKey
    \/ \E d \in DataCallbacks, k \in Objects \cup {None} : OpFindAvailableBlockIndex(d, k)
    \/ \E e \in {None, ConverterError}, o \in Objects \cup {None} : Exit(e, o)

Spec == Init /\ [][Next]_vars

\* ------------------------------------------------------------------ properties
BlockMethods == {"get_block_data_callback", "find_available_block_index",
                 "generate_block_key"}
\* The last call left a deserialization scope, cleanly or not.
LeftDeserialization == call.name = "__exit__" /\ closed.phase = "deser"
CleanExit == call.a = None
ValidIndex(i) == i \in 0..(NumBlocks - 1)

\* C1: a deserialization scope over object o in which get_block_data_callback(i)
\* was called once without a key (and no second unkeyed call was refused), left
\* cleanly, leaves blocks mapping o to block i and the callbacks mapping o to
\* callback i.
C1_UnkeyedCommitted ==
    (LeftDeserialization /\ CleanExit /\ closed.obj \in Objects
        /\ hist.first # -1 /\ ~hist.multi)
    => /\ blocks[closed.obj] = Block(hist.first)
       /\ data_callbacks[closed.obj] = Callback(hist.first)

C1_Witness ==
    /\ LeftDeserialization /\ CleanExit /\ closed.obj \in Objects
    /\ hist.first = 1 /\ ~hist.multi
    /\ blocks[closed.obj] = Block(1)

\* C2 as stated: a deserialization scope with block accesses, keyed or unkeyed,
\* that is left with an exception leaves blocks, the callbacks and the key
\* bindings as they were when the scope was opened.
C2_RegistryAsOpened ==
    (LeftDeserialization /\ ~CleanExit /\ (hist.first # -1 \/ hist.keyed # {}))
    => /\ blocks = opened.blocks
       /\ data_callbacks = opened.data_callbacks
       /\ key_obj = opened.key_obj

\* C2 amended: such a scope leaves every mapping owned by an object and every key
\* binding as they were when the scope was opened; the mappings of the keys of its
\* keyed accesses, written at the calls, stay.
C2_OnlyKeyedWritesStay ==
    (LeftDeserialization /\ ~CleanExit /\ (hist.first # -1 \/ hist.keyed # {}))
    => /\ \A w \in Owners \ hist.keyed :
            /\ blocks[w] = opened.blocks[w]
            /\ data_callbacks[w] = opened.data_callbacks[w]
       /\ \A k \in hist.keyed : blocks[k] # None /\ data_callbacks[k] # None
       /\ key_obj = opened.key_obj

C2_Witness ==
    /\ LeftDeserialization /\ ~CleanExit
    /\ hist.first # -1 /\ hist.keyed # {} /\ hist.gen # {}
    /\ closed.obj \in Objects
    /\ blocks # opened.blocks

\* An unkeyed get_block_data_callback in a deserialization scope whose unkeyed
\* access has already succeeded.
SecondUnkeyed ==
    /\ op.phase = "deser" /\ hist.first # -1
    /\ call'.on = "op" /\ call'.name = "get_block_data_callback" /\ call'.b = None

\* C3 as stated: a second unkeyed get_block_data_callback in a scope fails with
\* the multiple-unkeyed-blocks error whatever the index, and changes neither the
\* registry nor the scope's recorded pair.
C3_AlwaysMultipleUnkeyed ==
    [][SecondUnkeyed => /\ ret' = MultipleUnkeyedError
                        /\ UNCHANGED <<blocks, data_callbacks, key_obj, op>>]_vars

\* C3 amended: a second unkeyed get_block_data_callback in a scope always fails and
\* changes neither the registry nor the scope's recorded pair; the failure is the
\* multiple-unkeyed-blocks error when the index is one of the collection, and the
\* collection's own error when it is not.
C3_SecondUnkeyedFails ==
    [][SecondUnkeyed => /\ call'.a # None
                        /\ ret' = IF ValidIndex(call'.a[2])
                                  THEN MultipleUnkeyedError ELSE IndexError
                        /\ UNCHANGED <<blocks, data_callbacks, key_obj, op>>]_vars

C3_Witness ==
    /\ op.phase = "deser" /\ hist.first = 0 /\ hist.keyed # {}
    /\ call.on = "op" /\ call.name = "get_block_data_callback" /\ call.b = None
    /\ call.a = IntVal(1) /\ ret = MultipleUnkeyedError
    /\ op.blk = Block(0)

\* The exit of a deserialization scope in which a second unkeyed access was refused.
ExitAfterRefusal ==
    op.phase = "deser" /\ hist.multi /\ call'.on = "op" /\ call'.name = "__exit__"

\* C4 as stated: the exit of a deserialization scope in which a second unkeyed
\* get_block_data_callback raised applies no mapping and no key binding.
C4_RefusalSkipsCommit ==
    [][ExitAfterRefusal => UNCHANGED <<blocks, data_callbacks, key_obj>>]_vars

\* C4 amended: when the multiple-unkeyed-blocks error leaves the scope (the exit sees
\* an exception) no mapping and no key binding is applied; when the converter has
\* handled it and the scope is left cleanly, the commit is applied with the pair
\* of the first unkeyed access.
C4_PropagatedRefusalSkipsCommit ==
    [][ExitAfterRefusal =>
        IF call'.a # None
        THEN UNCHANGED <<blocks, data_callbacks, key_obj>>
        ELSE /\ blocks' = assign_object(blocks, closed'.obj, Block(hist.first))
             /\ data_callbacks' = assign_object(data_callbacks, closed'.obj,
                                                Callback(hist.first))
             /\ key_obj' = keys_assign_object(key_obj, hist.gen, closed'.obj)]_vars

C4_Witness ==
    /\ LeftDeserialization /\ ~CleanExit /\ hist.multi
    /\ hist.gen # {} /\ closed.obj \in Objects
    /\ blocks[closed.obj] = None
    /\ \A k \in hist.gen : key_obj[k] = None

\* C5: after a clean exit of a deserialization scope every key generate_block_key
\* returned in it is bound to the scope's object, whatever else was called.
C5_GeneratedKeysBound ==
    (LeftDeserialization /\ CleanExit)
    => \A k \in hist.gen : key_obj[k] = closed.obj

C5_Witness ==
    /\ LeftDeserialization /\ CleanExit /\ closed.obj \in Objects
    /\ Cardinality(hist.gen) = 2 /\ hist.first = -1 /\ hist.keyed # {}
    /\ \A k \in hist.gen : key_obj[k] = closed.obj

\* C6: generate_block_key in a serialization scope returns a key bound to the
\* scope's object; the keys generate_block_key returned in a deserialization scope
\* are bound to nothing as long as the scope is open.
C6_BindingAtReturn ==
    /\ (op.phase = "ser" /\ call.on = "op" /\ call.name = "generate_block_key")
       => (ret \in Keys /\ op.obj \in Objects /\ key_obj[ret] = op.obj)
    /\ op.phase = "deser" => \A k \in hist.gen : key_obj[k] = None
    /\ (op.phase = "deser" /\ call.on = "op" /\ call.name = "generate_block_key")
       => (ret \in Keys /\ ret \in op.keys)

C6_Witness ==
    /\ op.phase = "ser" /\ call.on = "op" /\ call.name = "generate_block_key"
    /\ ret = <<"key", 2>> /\ key_obj[ret] = op.obj
    /\ key_obj[<<"key", 1>>] = None

\* C7: find_available_block_index without a lookup key in a serialization scope
\* over o returns the index of the write block whose lookup key is o, the index
\* the first such call of the scope returned.
C7_DefaultLookupKey ==
    (op.phase = "ser" /\ call.on = "op" /\ call.name = "find_available_block_index"
        /\ call.a = None)
    => /\ hist.default_index \in 0..(Len(write_blocks) - 1)
       /\ ret = IntVal(hist.default_index)
       /\ write_blocks[hist.default_index + 1].key = op.obj

C7_Witness ==
    /\ op.phase = "ser" /\ call.on = "op" /\ call.name = "find_available_block_index"
    /\ call.a = None /\ hist.finds = 2
    /\ opened.write_blocks = <<>> /\ Len(write_blocks) = 2
    /\ ret = IntVal(0)

\* C8: extensions_used holds exactly one entry for every extension that was marked,
\* however often and on whatever receiver, and an Operation sees the set the
\* Context sees.
C8_OneEntry ==
    /\ \A e \in hist.marked :
          Cardinality({x \in SerializationContext_extensions_used(Self) :
                          Delegate(x) = e}) = 1
    /\ op.phase # "none"
       => Operation_extensions_used(Self) = SerializationContext_extensions_used(Self)

C8_Witness ==
    /\ op.phase # "none" /\ n_scopes = 2
    /\ call.on = "op" /\ call.name = "_mark_extension_used"
    /\ call.a = Extension(1) /\ call.b = IntVal(1)
    /\ extensions_used = {Proxy(1)}

\* C9: an extension in extensions_used stays in it over every step.
C9_Monotonic == [][extensions_used \subseteq extensions_used']_vars

C9_Witness ==
    /\ LeftDeserialization /\ ~CleanExit
    /\ hist.first # -1
    /\ extensions_used # {}

\* C10: a block method called on the bare Context raises NotImplementedError and
\* changes neither the registry, nor the allocator, nor extensions_used.
C10_NotSupported ==
    [][(call'.on = "ctx" /\ call'.name \in BlockMethods)
       => /\ ret' = NotImplementedError
          /\ UNCHANGED <<blocks, data_callbacks, key_obj, write_blocks,
                         extensions_used>>]_vars

C10_Witness ==
    /\ call.on = "ctx" /\ call.name = "generate_block_key"
    /\ ret = NotImplementedError
    /\ n_keys < MaxKeys
    /\ \E w \in Owners : blocks[w] # None

\* C11: a scope that is left with an exception leaves every mapping owned by an
\* object, and the binding of every key it has not generated itself, as it found
\* them when it was opened: what earlier, cleanly left scopes have committed for
\* other objects is still there, unchanged.
C11_EarlierCommitsStay ==
    (call.name = "__exit__" /\ ~CleanExit)
    => /\ \A o \in Objects :
            /\ blocks[o] = opened.blocks[o]
            /\ data_callbacks[o] = opened.data_callbacks[o]
       /\ \A k \in Keys \ hist.gen : key_obj[k] = opened.key_obj[k]

C11_Witness ==
    /\ LeftDeserialization /\ ~CleanExit /\ n_scopes = 2
    /\ hist.first # -1 /\ hist.gen # {}
    /\ closed.obj \in Objects
    /\ \E o \in Objects \ {closed.obj} :
            /\ opened.blocks[o] # None /\ blocks[o] = opened.blocks[o]
            /\ \E k \in Keys : key_obj[k] = o
    /\ blocks[closed.obj] = None

\* C12: constructing a Context with a version string the standard does not
\* support fails with the validator's error and leaves no Context; while there is
\* no Context no scope is open or has been opened, and the block manager's
\* stores, the key bindings and the allocator are as they were created.
C12_InvalidVersionFails ==
    /\ (call.name = "__init__" /\ call.a \notin SupportedVersions)
       => ret = InvalidVersion /\ version = None
    /\ version = None
       => /\ op.phase = "none" /\ n_scopes = 0
          /\ \A w \in Owners : blocks[w] = None /\ data_callbacks[w] = None
          /\ \A k \in Keys : key_obj[k] = None
          /\ write_blocks = <<>> /\ n_keys = 0

C12_Witness ==
    /\ call.name = "__init__" /\ call.a \in Versions \ SupportedVersions
    /\ ret = InvalidVersion /\ version = None

\* A get_block_data_callback with a key in a deserialization scope.
KeyedAccess ==
    /\ op.phase = "deser"
    /\ call'.on = "op" /\ call'.name = "get_block_data_callback" /\ call'.b # None
\* A get_block_data_callback without a key in a deserialization scope whose
\* unkeyed access has not succeeded yet.
FirstUnkeyed ==
    /\ op.phase = "deser" /\ hist.first = -1
    /\ call'.on = "op" /\ call'.name = "get_block_data_callback" /\ call'.b = None

\* C13: get_block_data_callback(index, key) with a key maps the key to the block
\* and to the callback at the call, however many keyed accesses the scope has
\* made and whether or not its unkeyed access has been made; it fails only for an
\* index the collection does not hold, and never touches the scope's unkeyed pair,
\* so the unkeyed access of a scope succeeds after any keyed accesses.
C13_KeyedImmediate ==
    [][/\ KeyedAccess
          => IF call'.a # None
             THEN ret' = IndexError /\ ~ValidIndex(call'.a[2])
             ELSE /\ op' = op
                  /\ \E i \in 0..(NumBlocks - 1) :
                        /\ ret' = Callback(i)
                        /\ blocks' = assign_object(blocks, call'.b, Block(i))
                        /\ data_callbacks' = assign_object(data_callbacks, call'.b,
                                                           Callback(i))
       /\ FirstUnkeyed
          => IF call'.a # None
             THEN ret' = IndexError /\ ~ValidIndex(call'.a[2])
             ELSE \E i \in 0..(NumBlocks - 1) :
                        ret' = Callback(i) /\ op'.blk = Block(i) /\ op'.cb = Callback(i)
      ]_vars

C13_Witness ==
    /\ op.phase = "deser"
    /\ call.name = "get_block_data_callback" /\ call.b = None /\ ret = Callback(1)
    /\ Cardinality(hist.keyed) = 2
    /\ \A k \in hist.keyed : blocks[k] = Block(0) /\ data_callbacks[k] = Callback(0)

\* C14: while a deserialization scope is open, the mappings owned by objects (or
\* by the unset object) are as they were when it was opened, whatever unkeyed
\* access it has made; once it is left they are still so, but for the mapping of
\* the scope's object to the block and callback of its unkeyed access, which is
\* there after a clean exit and only after a clean exit.
C14_UnkeyedDeferred ==
    /\ op.phase = "deser"
       => \A w \in Objects \cup {None} :
            /\ blocks[w] = opened.blocks[w]
            /\ data_callbacks[w] = opened.data_callbacks[w]
    /\ LeftDeserialization
       => \A w \in Objects \cup {None} :
            IF CleanExit /\ hist.first # -1 /\ w = closed.obj
            THEN blocks[w] = Block(hist.first) /\ data_callbacks[w] = Callback(hist.first)
            ELSE blocks[w] = opened.blocks[w]
                 /\ data_callbacks[w] = opened.data_callbacks[w]

C14_Witness ==
    /\ op.phase = "deser" /\ hist.first = 1 /\ op.blk = Block(1)
    /\ call.name = "generate_block_key"
    /\ \A w \in Objects \cup {None} : blocks[w] # Block(1)

\* C15: leaving a serialization scope or an _IgnoreBlocks scope, cleanly or with
\* an exception, changes nothing: the block manager's stores, the key bindings,
\* the allocator and the extensions used after the exit are those before it.
C15_ExitDoesNothing ==
    [][(op.phase \in {"ser", "ignore"} /\ call'.on = "op" /\ call'.name = "__exit__")
       => UNCHANGED <<blocks, data_callbacks, key_obj, n_keys, write_blocks,
                      extensions_used>>
      ]_vars

C15_Witness ==
    /\ call.name = "__exit__" /\ closed.phase = "ser" /\ ~CleanExit
    /\ Len(write_blocks) > Len(opened.write_blocks)
    /\ \E k \in hist.gen : key_obj[k] = closed.obj

\* A block method called on a scope whose class does not define it.
UnsupportedCall ==
    /\ call'.on = "op"
    /\ \/ op.phase = "ignore" /\ call'.name \in BlockMethods
       \/ op.phase = "ser" /\ call'.name = "get_block_data_callback"
       \/ op.phase = "deser" /\ call'.name = "find_available_block_index"

\* C16: every block method called on an _IgnoreBlocks scope,
\* get_block_data_callback on a serialization scope and
\* find_available_block_index on a deserialization scope raise
\* NotImplementedError and change neither the block manager's stores, the key
\* bindings and the allocator nor what the scope has recorded.
C16_UnsupportedInPhase ==
    [][UnsupportedCall
       => /\ ret' = NotImplementedError
          /\ UNCHANGED <<blocks, data_callbacks, key_obj, n_keys, write_blocks, op,
                         extensions_used>>
      ]_vars

C16_Witness ==
    /\ op.phase = "deser" /\ call.name = "find_available_block_index"
    /\ ret = NotImplementedError
    /\ op.blk # None /\ op.keys # {} /\ hist.keyed # {}

\* A get_block_data_callback in a deserialization scope with an index the block
\* collection does not hold.
FailedLookup ==
    /\ op.phase = "deser"
    /\ call'.on = "op" /\ call'.name = "get_block_data_callback"
    /\ call'.a # None /\ ~ValidIndex(call'.a[2])

\* C17: get_block_data_callback with an index the block collection does not hold
\* raises the collection's error and records nothing: the scope, its unkeyed pair
\* included, and the block manager's stores are unchanged, and if the scope's
\* unkeyed access has not been made, an unkeyed call with any index the
\* collection holds succeeds after it.
C17_LookupErrorPassedThrough ==
    [][FailedLookup
       => /\ ret' = IndexError
          /\ UNCHANGED <<op, blocks, data_callbacks, key_obj>>
          /\ hist.first = -1
             => \A i \in 0..(NumBlocks - 1) :
                    Deserialization_get_block_data_callback(Self', i, None).ret
                        = Callback(i)
      ]_vars

C17_Witness ==
    /\ op.phase = "deser" /\ hist.failed
    /\ call.name = "get_block_data_callback" /\ call.b = None
    /\ ret = Callback(1) /\ hist.first = 1 /\ op.blk = Block(1)

\* C18: every deserialization scope starts with no unkeyed pair and no keys of
\* its own, whatever the scopes before it did: its pair is set exactly when its
\* own unkeyed access has succeeded, its keys are those generated in it, and its
\* clean exit binds these keys to its object and leaves every other key bound as
\* it was when the scope was opened.
C18_PerScope ==
    /\ call.name = "_deserialization"
       => op.blk = None /\ op.cb = None /\ op.keys = {}
    /\ op.phase = "deser"
       => /\ op.blk = None <=> hist.first = -1
          /\ op.keys = hist.gen
    /\ (LeftDeserialization /\ CleanExit)
       => \A k \in Keys :
            key_obj[k] = IF k \in hist.gen THEN closed.obj ELSE opened.key_obj[k]

C18_Witness ==
    /\ LeftDeserialization /\ CleanExit /\ n_scopes = 2
    /\ closed.obj \in Objects
    /\ hist.first = 1 /\ blocks[closed.obj] = Block(1)
    /\ hist.gen = {BlockKey(1)} /\ key_obj[BlockKey(1)] = closed.obj
    /\ \E o \in Objects \ {closed.obj} :
            /\ opened.blocks[o] = Block(0) /\ blocks[o] = Block(0)
            /\ key_obj[BlockKey(0)] = o

\* C19: a key that generate_block_key returned in a deserialization scope that
\* was left with an exception is bound to no object, then and in every later
\* state, whatever later scopes commit.
C19_DroppedKeysStayUnbound ==
    \A k \in hist.dropped : key_obj[k] = None

C19_Witness ==
    /\ LeftDeserialization /\ CleanExit /\ n_scopes = 2
    /\ closed.obj \in Objects
    /\ hist.dropped = {BlockKey(0)} /\ key_obj[BlockKey(0)] = None
    /\ hist.gen = {BlockKey(1)} /\ key_obj[BlockKey(1)] = closed.obj

\* C20: a deserialization scope that is left cleanly and commits something, the
\* pair of its unkeyed access or a key it has generated, has had its object set:
\* nothing is ever committed under the unset object.
C20_CommitHasObject ==
    (LeftDeserialization /\ CleanExit /\ (hist.first # -1 \/ hist.gen # {}))
    => /\ closed.obj # None
       /\ blocks[None] = None /\ data_callbacks[None] = None

====
